---- MODULE Spec2Model ----
(***************************************************************************)
(* Model of tools/create_test_audio.py: create_test_audio() synthesises a  *)
(* sine tone, quantizes it to signed 16-bit PCM and writes it as a mono    *)
(* WAV file through the standard wave module.                              *)
(*                                                                         *)
(* The function's three configuration values (sample_rate, duration,       *)
(* frequency; lines 24-26) are variables of the model so that the body     *)
(* (lines 34-60) can be run on other values than the ones the script       *)
(* assigns.  Spec draws them from small sets and runs the generation loop  *)
(* one iteration per step; SpecDefault fixes them to the script's values   *)
(* and runs the 132300 iterations of the loop as one step.                 *)
(*                                                                         *)
(* Reals are modelled exactly where the code's floats are exact or well    *)
(* away from a rounding boundary: duration is a multiple of 1/DurDen       *)
(* seconds (a dyadic float), the phase of sample i is a whole number of    *)
(* 1/PhaseSteps turns, and math.sin of such a phase is a table entry       *)
(* scaled by SinScale.  For every table entry other than sin = 0 and       *)
(* sin = 1 the product with 32767 lies more than 5/10000 from an integer,  *)
(* far more than the table's or a float's rounding error, so the integer   *)
(* part computed here is the one int() returns in the script.              *)
(***************************************************************************)
EXTENDS Integers, Sequences, FiniteSets, TLC

\* ---------------------------------------------------------------- bounds
MaxRate == 10
MaxFreq == 2
MaxDurUnits == 4
MaxRuns == 2

\* ------------------------------------------------------ program constants
DefaultSampleRate == 44100
DefaultDuration == 3
DefaultFrequency == 440
Amplitude == 32767
NChannels == 1
SampWidth == 2

\* duration is counted in units of 1/DurDen second
DurDen == 2

\* ------------------------------------------------------------- math.sin
\* One turn (2*pi) is PhaseSteps phase units: 8820 = 44100 / 5 resolves the
\* phases 440*i/44100 of the script and those of every rate dividing 8820.
QuarterSteps == 2205
PhaseSteps == 4 * QuarterSteps
SinScale == 100000000

\* SinQuarter[k + 1] = sin(2*pi*k/PhaseSteps) * SinScale, to the nearest
\* integer, for k in 0..QuarterSteps (the first quarter turn).
SinQuarter ==
  << 
     0, 71238, 142476, 213714, 284951, 356189, 427426, 498663,
     569900, 641137, 712373, 783609, 854845, 926080, 997314, 1068549,
     1139782, 1211015, 1282248, 1353479, 1424710, 1495941, 1567170, 1638399,
     1709627, 1780854, 1852080, 1923305, 1994530, 2065753, 2136975, 2208196,
     2279416, 2350635, 2421853, 2493069, 2564284, 2635498, 2706711, 2777922,
     2849132, 2920340, 2991547, 3062752, 3133956, 3205158, 3276358, 3347557,
     3418754, 3489950, 3561143, 3632335, 3703525, 3774713, 3845899, 3917084,
     3988266, 4059446, 4130624, 4201800, 4272974, 4344146, 4415316, 4486483,
     4557648, 4628811, 4699971, 4771129, 4842285, 4913438, 4984589, 5055737,
     5126882, 5198025, 5269165, 5340303, 5411438, 5482570, 5553700, 5624826,
     5695950, 5767071, 5838189, 5909303, 5980415, 6051524, 6122630, 6193733,
     6264832, 6335929, 6407022, 6478112, 6549199, 6620282, 6691362, 6762438,
     6833512, 6904581, 6975647, 7046710, 7117769, 7188824, 7259876, 7330924,
     7401969, 7473009, 7544046, 7615079, 7686108, 7757134, 7828155, 7899172,
     7970186, 8041195, 8112200, 8183201, 8254198, 8325191, 8396179, 8467163,
     8538143, 8609119, 8680090, 8751057, 8822020, 8892977, 8963931, 9034880,
     9105824, 9176764, 9247699, 9318629, 9389555, 9460475, 9531391, 9602303,
     9673209, 9744110, 9815007, 9885898, 9956785, 10027666, 10098542, 10169414,
     10240280, 10311140, 10381996, 10452846, 10523691, 10594531, 10665365, 10736194,
     10807018, 10877836, 10948648, 11019455, 11090256, 11161052, 11231842, 11302626,
     11373405, 11444178, 11514945, 11585706, 11656461, 11727210, 11797954, 11868691,
     11939422, 12010148, 12080867, 12151580, 12222287, 12292988, 12363682, 12434370,
     12505052, 12575728, 12646397, 12717060, 12787716, 12858366, 12929009, 12999646,
     13070276, 13140900, 13211516, 13282127, 13352730, 13423327, 13493916, 13564499,
     13635075, 13705645, 13776207, 13846762, 13917310, 13987851, 14058385, 14128912,
     14199432, 14269944, 14340450, 14410948, 14481438, 14551922, 14622397, 14692866,
     14763327, 14833781, 14904227, 14974665, 15045096, 15115519, 15185935, 15256343,
     15326743, 15397135, 15467520, 15537896, 15608265, 15678626, 15748979, 15819324,
     15889661, 15959990, 16030310, 16100623, 16170927, 16241223, 16311511, 16381791,
     16452063, 16522326, 16592580, 16662826, 16733064, 16803293, 16873514, 16943726,
     17013930, 17084125, 17154311, 17224489, 17294658, 17364818, 17434969, 17505111,
     17575245, 17645370, 17715485, 17785592, 17855689, 17925778, 17995858, 18065928,
     18135989, 18206041, 18276084, 18346117, 18416141, 18486156, 18556162, 18626158,
     18696144, 18766121, 18836089, 18906047, 18975995, 19045934, 19115863, 19185782,
     19255692, 19325592, 19395482, 19465362, 19535232, 19605093, 19674943, 19744784,
     19814614, 19884435, 19954245, 20024045, 20093835, 20163615, 20233385, 20303144,
     20372893, 20442632, 20512360, 20582078, 20651786, 20721483, 20791169, 20860845,
     20930510, 21000165, 21069809, 21139443, 21209065, 21278677, 21348278, 21417868,
     21487448, 21557016, 21626574, 21696120, 21765656, 21835180, 21904694, 21974196,
     22043687, 22113167, 22182636, 22252093, 22321540, 22390974, 22460398, 22529810,
     22599211, 22668600, 22737978, 22807344, 22876698, 22946041, 23015373, 23084692,
     23154000, 23223296, 23292581, 23361853, 23431114, 23500363, 23569600, 23638825,
     23708038, 23777239, 23846428, 23915604, 23984769, 24053921, 24123062, 24192190,
     24261305, 24330409, 24399500, 24468578, 24537645, 24606698, 24675740, 24744769,
     24813785, 24882788, 24951779, 25020758, 25089723, 25158676, 25227617, 25296544,
     25365458, 25434360, 25503249, 25572125, 25640987, 25709837, 25778674, 25847498,
     25916308, 25985106, 26053890, 26122661, 26191418, 26260163, 26328894, 26397612,
     26466316, 26535007, 26603685, 26672349, 26740999, 26809636, 26878259, 26946869,
     27015465, 27084047, 27152615, 27221170, 27289711, 27358238, 27426751, 27495250,
     27563736, 27632207, 27700664, 27769107, 27837536, 27905951, 27974352, 28042739,
     28111111, 28179469, 28247813, 28316143, 28384458, 28452759, 28521045, 28589317,
     28657574, 28725817, 28794045, 28862259, 28930458, 28998642, 29066811, 29134966,
     29203106, 29271231, 29339342, 29407437, 29475517, 29543583, 29611634, 29679669,
     29747690, 29815695, 29883685, 29951660, 30019620, 30087565, 30155494, 30223408,
     30291307, 30359190, 30427058, 30494911, 30562748, 30630569, 30698375, 30766166,
     30833940, 30901699, 30969443, 31037171, 31104883, 31172579, 31240259, 31307924,
     31375572, 31443205, 31510822, 31578423, 31646007, 31713576, 31781129, 31848665,
     31916185, 31983689, 32051177, 32118649, 32186104, 32253543, 32320966, 32388372,
     32455762, 32523135, 32590492, 32657832, 32725156, 32792463, 32859753, 32927027,
     32994284, 33061524, 33128748, 33195954, 33263144, 33330317, 33397473, 33464612,
     33531735, 33598840, 33665928, 33732999, 33800053, 33867089, 33934109, 34001111,
     34068096, 34135064, 34202014, 34268947, 34335863, 34402761, 34469642, 34536505,
     34603351, 34670179, 34736990, 34803783, 34870558, 34937316, 35004056, 35070778,
     35137482, 35204169, 35270838, 35337488, 35404121, 35470736, 35537333, 35603912,
     35670472, 35737015, 35803540, 35870046, 35936534, 36003004, 36069455, 36135889,
     36202304, 36268700, 36335079, 36401438, 36467780, 36534102, 36600407, 36666692,
     36732959, 36799208, 36865438, 36931649, 36997841, 37064014, 37130169, 37196305,
     37262422, 37328520, 37394599, 37460659, 37526700, 37592723, 37658726, 37724710,
     37790674, 37856620, 37922546, 37988453, 38054341, 38120210, 38186059, 38251889,
     38317699, 38383490, 38449262, 38515014, 38580746, 38646459, 38712152, 38777826,
     38843480, 38909114, 38974728, 39040323, 39105898, 39171453, 39236988, 39302503,
     39367998, 39433474, 39498929, 39564364, 39629779, 39695174, 39760549, 39825904,
     39891239, 39956553, 40021847, 40087121, 40152374, 40217607, 40282819, 40348012,
     40413183, 40478334, 40543465, 40608575, 40673664, 40738733, 40803781, 40868809,
     40933815, 40998801, 41063766, 41128710, 41193634, 41258536, 41323418, 41388278,
     41453118, 41517936, 41582734, 41647510, 41712265, 41776999, 41841712, 41906404,
     41971074, 42035723, 42100351, 42164957, 42229542, 42294105, 42358647, 42423168,
     42487667, 42552144, 42616600, 42681034, 42745447, 42809838, 42874207, 42938554,
     43002880, 43067184, 43131465, 43195726, 43259964, 43324180, 43388374, 43452546,
     43516696, 43580824, 43644930, 43709014, 43773075, 43837115, 43901132, 43965127,
     44029099, 44093049, 44156977, 44220882, 44284765, 44348626, 44412464, 44476279,
     44540072, 44603842, 44667590, 44731315, 44795017, 44858697, 44922353, 44985987,
     45049598, 45113187, 45176752, 45240294, 45303814, 45367310, 45430784, 45494234,
     45557662, 45621066, 45684447, 45747805, 45811139, 45874451, 45937739, 46001004,
     46064245, 46127463, 46190658, 46253829, 46316977, 46380101, 46443202, 46506279,
     46569332, 46632362, 46695369, 46758351, 46821310, 46884245, 46947156, 47010044,
     47072907, 47135747, 47198563, 47261355, 47324122, 47386866, 47449586, 47512282,
     47574953, 47637601, 47700224, 47762823, 47825398, 47887948, 47950475, 48012977,
     48075454, 48137907, 48200336, 48262740, 48325120, 48387475, 48449806, 48512112,
     48574393, 48636650, 48698882, 48761090, 48823273, 48885430, 48947564, 49009672,
     49071755, 49133814, 49195847, 49257856, 49319839, 49381798, 49443731, 49505640,
     49567523, 49629381, 49691214, 49753022, 49814804, 49876562, 49938293, 50000000,
     50061681, 50123337, 50184967, 50246572, 50308151, 50369705, 50431234, 50492736,
     50554213, 50615665, 50677090, 50738490, 50799865, 50861213, 50922536, 50983832,
     51045103, 51106348, 51167567, 51228761, 51289928, 51351069, 51412184, 51473273,
     51534336, 51595372, 51656383, 51717367, 51778325, 51839257, 51900162, 51961041,
     52021894, 52082720, 52143520, 52204294, 52265041, 52325761, 52386455, 52447122,
     52507763, 52568377, 52628964, 52689525, 52750059, 52810566, 52871046, 52931500,
     52991926, 53052326, 53112699, 53173045, 53233364, 53293656, 53353920, 53414158,
     53474369, 53534552, 53594709, 53654838, 53714940, 53775014, 53835062, 53895082,
     53955074, 54015040, 54074978, 54134888, 54194771, 54254626, 54314454, 54374255,
     54434027, 54493773, 54553490, 54613180, 54672842, 54732476, 54792083, 54851662,
     54911213, 54970736, 55030231, 55089698, 55149137, 55208549, 55267932, 55327287,
     55386614, 55445913, 55505184, 55564427, 55623642, 55682828, 55741986, 55801116,
     55860217, 55919290, 55978335, 56037351, 56096339, 56155299, 56214230, 56273132,
     56332006, 56390851, 56449668, 56508456, 56567215, 56625946, 56684647, 56743320,
     56801965, 56860580, 56919167, 56977725, 57036253, 57094753, 57153224, 57211666,
     57270079, 57328463, 57386817, 57445143, 57503439, 57561707, 57619945, 57678153,
     57736333, 57794483, 57852604, 57910696, 57968758, 58026790, 58084794, 58142767,
     58200712, 58258626, 58316512, 58374367, 58432193, 58489989, 58547756, 58605493,
     58663200, 58720878, 58778525, 58836143, 58893731, 58951289, 59008817, 59066315,
     59123783, 59181222, 59238630, 59296008, 59353356, 59410674, 59467961, 59525219,
     59582446, 59639643, 59696810, 59753947, 59811053, 59868129, 59925174, 59982189,
     60039174, 60096128, 60153052, 60209945, 60266808, 60323640, 60380441, 60437212,
     60493952, 60550661, 60607340, 60663988, 60720605, 60777191, 60833747, 60890271,
     60946765, 61003228, 61059659, 61116060, 61172430, 61228769, 61285076, 61341353,
     61397598, 61453813, 61509996, 61566148, 61622268, 61678358, 61734416, 61790442,
     61846438, 61902402, 61958334, 62014235, 62070105, 62125943, 62181750, 62237525,
     62293268, 62348980, 62404660, 62460309, 62515926, 62571511, 62627064, 62682586,
     62738076, 62793534, 62848960, 62904354, 62959716, 63015047, 63070345, 63125611,
     63180846, 63236048, 63291218, 63346356, 63401462, 63456535, 63511577, 63566586,
     63621563, 63676508, 63731420, 63786300, 63841148, 63895963, 63950746, 64005497,
     64060215, 64114900, 64169553, 64224173, 64278761, 64333316, 64387839, 64442328,
     64496785, 64551210, 64605601, 64659960, 64714286, 64768579, 64822840, 64877067,
     64931261, 64985423, 65039551, 65093647, 65147709, 65201739, 65255735, 65309698,
     65363628, 65417525, 65471389, 65525220, 65579017, 65632781, 65686511, 65740209,
     65793873, 65847503, 65901100, 65954664, 66008194, 66061691, 66115154, 66168584,
     66221980, 66275342, 66328671, 66381966, 66435228, 66488456, 66541650, 66594810,
     66647936, 66701029, 66754088, 66807113, 66860104, 66913061, 66965984, 67018873,
     67071728, 67124549, 67177336, 67230089, 67282808, 67335492, 67388143, 67440759,
     67493341, 67545889, 67598403, 67650882, 67703327, 67755737, 67808114, 67860455,
     67912763, 67965035, 68017274, 68069478, 68121647, 68173782, 68225882, 68277947,
     68329978, 68381974, 68433936, 68485862, 68537754, 68589612, 68641434, 68693222,
     68744974, 68796692, 68848375, 68900023, 68951636, 69003214, 69054757, 69106265,
     69157738, 69209176, 69260578, 69311946, 69363278, 69414575, 69465837, 69517064,
     69568255, 69619411, 69670532, 69721617, 69772667, 69823682, 69874661, 69925605,
     69976513, 70027386, 70078223, 70129024, 70179790, 70230521, 70281215, 70331874,
     70382498, 70433086, 70483637, 70534154, 70584634, 70635079, 70685487, 70735860,
     70786197, 70836498, 70886763, 70936992, 70987185, 71037342, 71087463, 71137548,
     71187597, 71237610, 71287586, 71337527, 71387431, 71437299, 71487130, 71536926,
     71586685, 71636408, 71686094, 71735744, 71785358, 71834935, 71884476, 71933980,
     71983448, 72032879, 72082274, 72131632, 72180953, 72230238, 72279486, 72328698,
     72377873, 72427011, 72476112, 72525177, 72574204, 72623195, 72672149, 72721067,
     72769947, 72818790, 72867597, 72916366, 72965098, 73013794, 73062452, 73111073,
     73159658, 73208205, 73256714, 73305187, 73353623, 73402021, 73450382, 73498706,
     73546992, 73595241, 73643453, 73691627, 73739764, 73787864, 73835926, 73883951,
     73931938, 73979888, 74027800, 74075674, 74123511, 74171311, 74219072, 74266796,
     74314483, 74362131, 74409742, 74457315, 74504850, 74552348, 74599808, 74647230,
     74694613, 74741960, 74789268, 74836538, 74883770, 74930964, 74978120, 75025238,
     75072318, 75119360, 75166364, 75213330, 75260257, 75307147, 75353998, 75400811,
     75447585, 75494321, 75541019, 75587679, 75634300, 75680883, 75727428, 75773934,
     75820401, 75866830, 75913221, 75959573, 76005887, 76052162, 76098398, 76144596,
     76190755, 76236875, 76282957, 76329000, 76375005, 76420970, 76466897, 76512785,
     76558634, 76604444, 76650216, 76695948, 76741642, 76787296, 76832912, 76878489,
     76924027, 76969525, 77014985, 77060405, 77105787, 77151129, 77196432, 77241696,
     77286921, 77332106, 77377252, 77422359, 77467427, 77512456, 77557445, 77602394,
     77647305, 77692175, 77737007, 77781799, 77826552, 77871265, 77915938, 77960572,
     78005167, 78049721, 78094237, 78138712, 78183148, 78227545, 78271901, 78316218,
     78360495, 78404732, 78448930, 78493088, 78537206, 78581284, 78625322, 78669320,
     78713279, 78757197, 78801075, 78844914, 78888712, 78932471, 78976189, 79019867,
     79063505, 79107103, 79150661, 79194179, 79237657, 79281094, 79324491, 79367848,
     79411164, 79454441, 79497677, 79540872, 79584027, 79627142, 79670217, 79713251,
     79756244, 79799197, 79842110, 79884982, 79927813, 79970604, 80013355, 80056065,
     80098734, 80141362, 80183950, 80226497, 80269004, 80311469, 80353894, 80396278,
     80438622, 80480924, 80523186, 80565407, 80607587, 80649726, 80691824, 80733881,
     80775897, 80817872, 80859806, 80901699, 80943552, 80985363, 81027132, 81068861,
     81110549, 81152195, 81193801, 81235365, 81276888, 81318369, 81359809, 81401209,
     81442566, 81483883, 81525158, 81566391, 81607584, 81648735, 81689844, 81730912,
     81771939, 81812924, 81853867, 81894769, 81935629, 81976448, 82017225, 82057961,
     82098655, 82139307, 82179918, 82220487, 82261014, 82301499, 82341943, 82382345,
     82422705, 82463023, 82503300, 82543534, 82583727, 82623877, 82663986, 82704053,
     82744078, 82784061, 82824002, 82863900, 82903757, 82943572, 82983345, 83023075,
     83062763, 83102410, 83142014, 83181576, 83221095, 83260573, 83300008, 83339401,
     83378751, 83418059, 83457325, 83496549, 83535730, 83574869, 83613965, 83653019,
     83692031, 83731000, 83769926, 83808810, 83847652, 83886451, 83925207, 83963921,
     84002592, 84041221, 84079807, 84118350, 84156851, 84195308, 84233724, 84272096,
     84310425, 84348712, 84386956, 84425157, 84463316, 84501431, 84539504, 84577534,
     84615520, 84653464, 84691365, 84729223, 84767038, 84804810, 84842538, 84880224,
     84917867, 84955467, 84993023, 85030536, 85068007, 85105434, 85142817, 85180158,
     85217455, 85254710, 85291921, 85329088, 85366212, 85403293, 85440331, 85477325,
     85514276, 85551184, 85588048, 85624869, 85661646, 85698380, 85735070, 85771716,
     85808320, 85844879, 85881395, 85917868, 85954297, 85990682, 86027024, 86063322,
     86099576, 86135787, 86171954, 86208077, 86244156, 86280192, 86316184, 86352132,
     86388036, 86423897, 86459713, 86495486, 86531215, 86566899, 86602540, 86638137,
     86673690, 86709199, 86744664, 86780085, 86815462, 86850795, 86886084, 86921329,
     86956530, 86991686, 87026798, 87061867, 87096891, 87131870, 87166806, 87201697,
     87236544, 87271347, 87306106, 87340820, 87375490, 87410116, 87444697, 87479234,
     87513726, 87548174, 87582578, 87616937, 87651251, 87685522, 87719747, 87753929,
     87788065, 87822157, 87856205, 87890208, 87924166, 87958080, 87991949, 88025773,
     88059553, 88093288, 88126979, 88160624, 88194225, 88227781, 88261293, 88294759,
     88328181, 88361558, 88394890, 88428177, 88461420, 88494617, 88527770, 88560877,
     88593940, 88626958, 88659931, 88692858, 88725741, 88758579, 88791372, 88824119,
     88856822, 88889479, 88922092, 88954659, 88987181, 89019658, 89052090, 89084476,
     89116817, 89149114, 89181364, 89213570, 89245730, 89277845, 89309915, 89341940,
     89373919, 89405852, 89437741, 89469584, 89501381, 89533133, 89564840, 89596501,
     89628117, 89659687, 89691212, 89722692, 89754125, 89785513, 89816856, 89848153,
     89879405, 89910610, 89941771, 89972885, 90003954, 90034977, 90065955, 90096887,
     90127773, 90158613, 90189408, 90220157, 90250860, 90281517, 90312129, 90342694,
     90373214, 90403688, 90434116, 90464498, 90494834, 90525125, 90555369, 90585567,
     90615720, 90645826, 90675887, 90705901, 90735869, 90765792, 90795668, 90825498,
     90855282, 90885020, 90914712, 90944358, 90973958, 91003511, 91033018, 91062479,
     91091894, 91121263, 91150585, 91179861, 91209091, 91238275, 91267412, 91296503,
     91325548, 91354546, 91383498, 91412403, 91441262, 91470075, 91498841, 91527561,
     91556235, 91584862, 91613442, 91641976, 91670464, 91698904, 91727299, 91755647,
     91783948, 91812203, 91840411, 91868572, 91896687, 91924756, 91952777, 91980752,
     92008680, 92036562, 92064397, 92092185, 92119927, 92147621, 92175269, 92202870,
     92230425, 92257932, 92285393, 92312807, 92340174, 92367494, 92394767, 92421994,
     92449173, 92476306, 92503391, 92530430, 92557422, 92584367, 92611264, 92638115,
     92664919, 92691676, 92718385, 92745048, 92771664, 92798232, 92824754, 92851228,
     92877655, 92904035, 92930368, 92956654, 92982893, 93009084, 93035228, 93061325,
     93087375, 93113377, 93139333, 93165241, 93191101, 93216915, 93242681, 93268400,
     93294071, 93319695, 93345272, 93370801, 93396283, 93421718, 93447105, 93472445,
     93497737, 93522982, 93548180, 93573330, 93598432, 93623487, 93648495, 93673454,
     93698367, 93723232, 93748049, 93772819, 93797541, 93822215, 93846842, 93871421,
     93895953, 93920437, 93944873, 93969262, 93993603, 94017896, 94042142, 94066340,
     94090490, 94114592, 94138647, 94162653, 94186612, 94210524, 94234387, 94258203,
     94281970, 94305690, 94329362, 94352987, 94376563, 94400091, 94423572, 94447004,
     94470389, 94493726, 94517014, 94540255, 94563448, 94586593, 94609690, 94632738,
     94655739, 94678692, 94701597, 94724453, 94747262, 94770022, 94792735, 94815399,
     94838015, 94860583, 94883103, 94905575, 94927998, 94950374, 94972701, 94994980,
     95017211, 95039393, 95061528, 95083614, 95105652, 95127641, 95149583, 95171476,
     95193320, 95215117, 95236865, 95258565, 95280216, 95301819, 95323374, 95344880,
     95366338, 95387748, 95409109, 95430422, 95451686, 95472902, 95494069, 95515188,
     95536259, 95557281, 95578254, 95599179, 95620056, 95640884, 95661663, 95682394,
     95703076, 95723710, 95744295, 95764832, 95785320, 95805759, 95826150, 95846492,
     95866785, 95887030, 95907226, 95927374, 95947473, 95967523, 95987524, 96007477,
     96027381, 96047236, 96067043, 96086800, 96106509, 96126170, 96145781, 96165344,
     96184858, 96204323, 96223739, 96243106, 96262425, 96281694, 96300915, 96320087,
     96339210, 96358284, 96377310, 96396286, 96415214, 96434092, 96452922, 96471702,
     96490434, 96509117, 96527750, 96546335, 96564871, 96583358, 96601795, 96620184,
     96638524, 96656814, 96675056, 96693248, 96711392, 96729486, 96747532, 96765528,
     96783475, 96801373, 96819222, 96837021, 96854772, 96872473, 96890126, 96907729,
     96925283, 96942787, 96960243, 96977649, 96995006, 97012314, 97029573, 97046782,
     97063942, 97081053, 97098115, 97115127, 97132090, 97149004, 97165868, 97182683,
     97199449, 97216166, 97232833, 97249451, 97266019, 97282538, 97299008, 97315428,
     97331799, 97348121, 97364393, 97380616, 97396789, 97412913, 97428988, 97445013,
     97460988, 97476915, 97492791, 97508618, 97524396, 97540124, 97555803, 97571432,
     97587012, 97602542, 97618023, 97633454, 97648835, 97664167, 97679450, 97694683,
     97709866, 97725000, 97740084, 97755118, 97770103, 97785038, 97799924, 97814760,
     97829546, 97844283, 97858970, 97873608, 97888195, 97902733, 97917222, 97931661,
     97946050, 97960389, 97974678, 97988918, 98003108, 98017249, 98031339, 98045380,
     98059371, 98073313, 98087204, 98101046, 98114838, 98128581, 98142273, 98155916,
     98169509, 98183052, 98196545, 98209988, 98223382, 98236725, 98250019, 98263263,
     98276457, 98289601, 98302696, 98315740, 98328735, 98341679, 98354574, 98367419,
     98380214, 98392959, 98405654, 98418299, 98430894, 98443439, 98455935, 98468380,
     98480775, 98493121, 98505416, 98517661, 98529857, 98542002, 98554098, 98566143,
     98578138, 98590083, 98601979, 98613824, 98625619, 98637364, 98649059, 98660704,
     98672299, 98683844, 98695339, 98706784, 98718178, 98729523, 98740817, 98752062,
     98763256, 98774400, 98785494, 98796538, 98807531, 98818475, 98829368, 98840211,
     98851004, 98861747, 98872440, 98883083, 98893675, 98904217, 98914709, 98925151,
     98935543, 98945884, 98956175, 98966416, 98976607, 98986747, 98996838, 99006878,
     99016867, 99026807, 99036696, 99046535, 99056324, 99066062, 99075751, 99085389,
     99094976, 99104514, 99114001, 99123437, 99132824, 99142160, 99151446, 99160681,
     99169867, 99179001, 99188086, 99197120, 99206104, 99215037, 99223921, 99232753,
     99241536, 99250268, 99258950, 99267581, 99276162, 99284693, 99293173, 99301603,
     99309982, 99318311, 99326590, 99334818, 99342996, 99351123, 99359200, 99367227,
     99375203, 99383128, 99391004, 99398828, 99406603, 99414327, 99422000, 99429623,
     99437196, 99444718, 99452190, 99459611, 99466981, 99474302, 99481571, 99488791,
     99495959, 99503078, 99510145, 99517163, 99524129, 99531046, 99537911, 99544727,
     99551491, 99558205, 99564869, 99571482, 99578045, 99584557, 99591018, 99597429,
     99603790, 99610100, 99616359, 99622568, 99628726, 99634834, 99640891, 99646897,
     99652853, 99658759, 99664614, 99670418, 99676172, 99681875, 99687527, 99693129,
     99698680, 99704181, 99709631, 99715031, 99720380, 99725678, 99730926, 99736123,
     99741269, 99746365, 99751410, 99756405, 99761349, 99766242, 99771085, 99775877,
     99780619, 99785310, 99789950, 99794539, 99799078, 99803566, 99808004, 99812391,
     99816727, 99821013, 99825248, 99829432, 99833566, 99837649, 99841681, 99845663,
     99849594, 99853474, 99857304, 99861083, 99864811, 99868489, 99872116, 99875692,
     99879218, 99882693, 99886117, 99889490, 99892813, 99896085, 99899307, 99902477,
     99905597, 99908667, 99911685, 99914653, 99917571, 99920437, 99923253, 99926018,
     99928732, 99931396, 99934009, 99936571, 99939083, 99941544, 99943954, 99946313,
     99948622, 99950880, 99953087, 99955243, 99957349, 99959404, 99961408, 99963362,
     99965265, 99967117, 99968918, 99970669, 99972369, 99974018, 99975616, 99977164,
     99978661, 99980107, 99981503, 99982848, 99984142, 99985385, 99986577, 99987719,
     99988810, 99989850, 99990840, 99991779, 99992667, 99993504, 99994291, 99995027,
     99995712, 99996346, 99996930, 99997463, 99997945, 99998376, 99998757, 99999087,
     99999366, 99999594, 99999772, 99999899, 99999975, 100000000
  >>

\* math.sin(2*pi*p/PhaseSteps) * SinScale for any integer phase p, by the
\* symmetries of the sine.
Sin(p) ==
  LET r == p % PhaseSteps IN
  IF r <= QuarterSteps THEN SinQuarter[r + 1]
  ELSE IF r <= 2 * QuarterSteps THEN SinQuarter[2 * QuarterSteps - r + 1]
  ELSE IF r <= 3 * QuarterSteps THEN -SinQuarter[r - 2 * QuarterSteps + 1]
  ELSE -SinQuarter[PhaseSteps - r + 1]

Abs(x) == IF x < 0 THEN -x ELSE x

\* The phase advance per sample, 2*pi*frequency/sample_rate, in phase units.
PhaseInc(sample_rate, frequency) == (frequency * PhaseSteps) \div sample_rate

\* The phases are exact only when the advance is a whole number of units.
Resolves(sample_rate, frequency) ==
  sample_rate > 0 => (frequency * PhaseSteps) % sample_rate = 0

\* line 46: sample = math.sin(2 * math.pi * frequency * i / sample_rate),
\* scaled by SinScale.
SineSample(sample_rate, frequency, i) == Sin(PhaseInc(sample_rate, frequency) * i)

\* line 47: the float sample * 32767, as sign, integer part and remainder of
\* |s| * a / SinScale (the product is split so that it stays in 32 bits).
Scaled(s, a) ==
  LET m == Abs(s)
      hi == m \div 10000
      lo == m % 10000
      x == a * hi
      rest == (x % 10000) * 10000 + a * lo
  IN [neg |-> s < 0,
      whole |-> (x \div 10000) + (rest \div SinScale),
      frac |-> rest % SinScale]

\* Roundings that int() is not: to the nearest integer (halves away from
\* zero), and toward minus infinity.
IntRound(v) ==
  LET up == IF 2 * v.frac >= SinScale THEN 1 ELSE 0
  IN IF v.neg THEN -(v.whole + up) ELSE v.whole + up

IntFloor(v) ==
  IF v.neg THEN -(v.whole + (IF v.frac > 0 THEN 1 ELSE 0)) ELSE v.whole

\* Python's int() of a float: truncation toward zero.
IntTrunc(v) == IF v.neg THEN -v.whole ELSE v.whole

\* The quantizer with a scale of 32768, one more than a 16-bit sample holds.
QuantizeOver(s) == IntTrunc(Scaled(s, 32767 + 1))

\* line 47: int(sample * 32767)
Quantize(s) == IntTrunc(Scaled(s, Amplitude))

\* A quotient rounded to the nearest integer (halves up) instead.
RoundDiv(a, b) == (2 * a + b) \div (2 * b)

\* An integer quotient truncated toward zero, as int() of an exact float.
TruncDiv(a, b) == IF a >= 0 THEN a \div b ELSE -((-a) \div b)

\* The sample count rounded up instead of truncated.
NumSamplesCeil(sample_rate, duration) ==
  -((-(sample_rate * duration)) \div DurDen)

\* line 45: int(sample_rate * duration), duration in units of 1/DurDen s
NumSamples(sample_rate, duration) == TruncDiv(sample_rate * duration, DurDen)

\* line 45: range(n) is empty for n <= 0
RangeLen(n) == IF n > 0 THEN n ELSE 0

\* -------------------------------------------------------------- buffers
\* A buffer (the list samples, a bytes object, the bytes of a file) is held
\* as a sequence of pages of PageSize elements each, all of them full but
\* the last, and none empty: two buffers are equal exactly when they hold
\* the same elements in the same order.
PageSize == 512

\* The buffer of the n elements f[1], ..., f[n].
BufOf(n, f) ==
  <<>> \o [p \in 1..((n + PageSize - 1) \div PageSize) |->
             <<>> \o [k \in 1..(IF p * PageSize <= n THEN PageSize
                                ELSE n - (p - 1) * PageSize) |->
                        f[(p - 1) * PageSize + k]]]

\* len(b)
BufLen(b) ==
  IF b = <<>> THEN 0 ELSE (Len(b) - 1) * PageSize + Len(b[Len(b)])

\* b[k - 1] (elements are counted from 1 here)
BufAt(b, k) == b[((k - 1) \div PageSize) + 1][((k - 1) % PageSize) + 1]

\* b.append(x)
BufAppend(b, x) ==
  IF b = <<>> \/ Len(b[Len(b)]) = PageSize
    THEN Append(b, <<x>>)
    ELSE [b EXCEPT ![Len(b)] = Append(@, x)]

\* a + b
BufCat(a, b) ==
  LET n == BufLen(a) + BufLen(b) IN
  BufOf(n, [k \in 1..n |->
              IF k <= BufLen(a) THEN BufAt(a, k) ELSE BufAt(b, k - BufLen(a))])

\* The buffer of a short sequence written out in full.
BufFrom(s) == BufOf(Len(s), [k \in 1..Len(s) |-> s[k]])

\* b with the elements at positions pos + 1 .. pos + Len(s) replaced by s
\* (seek(pos); write(s))
BufPatch(b, pos, s) ==
  LET n == BufLen(b) IN
  BufOf(n, [k \in 1..n |->
              IF k > pos /\ k <= pos + Len(s) THEN s[k - pos] ELSE BufAt(b, k)])

\* lines 44-47: the list the loop builds, all iterations at once
AllSamples(sample_rate, duration, frequency) ==
  LET n == RangeLen(NumSamples(sample_rate, duration)) IN
  BufOf(n, [k \in 1..n |-> Quantize(SineSample(sample_rate, frequency, k - 1))])

\* ----------------------------------------------------- struct and wave
\* Little-endian unsigned fields of struct.pack ('<H', '<L').
LE16(n) == <<n % 256, (n \div 256) % 256>>

LE32(n) ==
  <<n % 256, (n \div 256) % 256, (n \div 65536) % 256, (n \div 16777216) % 256>>

\* struct.pack 'h' accepts only a signed 16-bit value (else struct.error).
FitsShort(q) == q >= -32768 /\ q <= 32767

PackOk(s) == {k \in 1..BufLen(s) : ~FitsShort(BufAt(s, k))} = {}

\* A packing with format 'b' in mind: one byte per sample.
PackFramesByte(s) == BufOf(BufLen(s), [k \in 1..BufLen(s) |-> BufAt(s, k) % 256])

\* line 49: struct.pack('<%dh' % len(samples), *samples): two bytes per
\* sample, two's complement, low byte first.
PackFrames(s) ==
  LET n == 2 * BufLen(s) IN
  BufOf(n, [k \in 1..n |->
              LE16(BufAt(s, (k + 1) \div 2) % 65536)[((k - 1) % 2) + 1]])

TagRIFF == <<82, 73, 70, 70>>

TagWAVE == <<87, 65, 86, 69>>

TagFmt == <<102, 109, 116, 32>>

TagData == <<100, 97, 116, 97>>

\* A byte rate that forgets the sample width.
ByteRateMono(nchannels, framerate, sampwidth) == framerate

\* the header's byte rate field: nchannels * framerate * sampwidth
ByteRate(nchannels, framerate, sampwidth) == nchannels * framerate * sampwidth

\* Wave_write._write_header, reached from writeframes (line 49) or from
\* close (line 38): struct.pack('<L4s4sLHHLLHH4s', ...) then '<L'.
WavHeader(datalength, nchannels, framerate, sampwidth) ==
  TagRIFF \o LE32(36 + datalength) \o TagWAVE \o TagFmt \o LE32(16)
    \o LE16(1) \o LE16(nchannels) \o LE32(framerate)
    \o LE32(ByteRate(nchannels, framerate, sampwidth))
    \o LE16(nchannels * sampwidth) \o LE16(sampwidth * 8)
    \o TagData \o LE32(datalength)

HeaderLen == Len(WavHeader(0, NChannels, 1, SampWidth))

\* ------------------------------------------------------------ the state
VARIABLES
  sample_rate,  \* line 24
  duration,     \* line 25, in units of 1/DurDen second
  frequency,    \* line 26
  pc,           \* the statement create_test_audio is about to run
  dirExists,    \* the storage directory exists on disk
  fileExists,   \* input.wav exists on disk
  file,         \* the bytes of input.wav
  wav,          \* the Wave_write object of line 38
  samples,      \* line 44
  i,            \* the loop index of line 45
  err,          \* the exception that is propagating, or "none"
  file_size,    \* line 52, -1 before it is read
  printed,      \* the summary of lines 54-58 was printed
  runs,         \* invocations of create_test_audio started so far
  startDir,     \* dirExists when the current invocation started
  startExists,  \* fileExists when the current invocation started
  startFile,    \* file when the current invocation started
  prevOutcome   \* how the previous invocation ended ("none" for the first)

vars ==
  <<sample_rate, duration, frequency, pc, dirExists, fileExists, file, wav,
    samples, i, err, file_size, printed, runs, startDir, startExists,
    startFile, prevOutcome>>

config == <<sample_rate, duration, frequency>>

WavNone ==
  [state |-> "none", nchannels |-> 0, sampwidth |-> 0, framerate |-> 0,
   headerwritten |-> FALSE, headerpos |-> 0, datalength |-> 0, datawritten |-> 0]

\* What input.wav may hold before the script runs: a short leftover and one
\* longer than any file the bounded runs of Spec write.
StaleFiles == {BufFrom(<<1, 2, 3>>), BufOf(150, [k \in 1..150 |-> 7])}

InitLocals ==
  /\ pc = "start"
  /\ wav = WavNone
  /\ samples = <<>>
  /\ i = 0
  /\ err = "none"
  /\ file_size = -1
  /\ printed = FALSE
  /\ runs = 1
  /\ prevOutcome = "none"

InitDisk ==
  /\ dirExists \in BOOLEAN
  /\ fileExists \in (IF dirExists THEN BOOLEAN ELSE {FALSE})
  /\ file \in (IF fileExists THEN StaleFiles ELSE {<<>>})
  /\ startDir = dirExists
  /\ startExists = fileExists
  /\ startFile = file

Init ==
  /\ sample_rate \in -1..MaxRate
  /\ duration \in -1..MaxDurUnits
  /\ frequency \in -1..MaxFreq
  /\ Resolves(sample_rate, frequency)
  /\ InitLocals
  /\ InitDisk

\* lines 24-26 as the script assigns them
InitDefault ==
  /\ sample_rate = DefaultSampleRate
  /\ duration = DefaultDuration * DurDen
  /\ frequency = DefaultFrequency
  /\ InitLocals
  /\ InitDisk

\* ---------------------------------------------------------- the actions
disk == <<dirExists, fileExists, file>>

ghosts == <<runs, startDir, startExists, startFile, prevOutcome>>

\* line 34: exist_ok=True, so an existing directory raises nothing
MakedirsRaises(exists) == FALSE

\* A run that does not create the directory.
MakedirsSkipped(exists) == exists

\* line 34: os.makedirs leaves the directory (and its parents) in place
MakedirsCreates(exists) == TRUE

\* line 34: os.makedirs(storage_dir, exist_ok=True)
Makedirs ==
  /\ pc = "start"
  /\ IF MakedirsRaises(dirExists)
       THEN /\ err' = "makedirs_OSError"
            /\ pc' = "error"
            /\ UNCHANGED dirExists
       ELSE /\ dirExists' = MakedirsCreates(dirExists)
            /\ pc' = "open"
            /\ UNCHANGED err
  /\ UNCHANGED <<config, fileExists, file, wav, samples, i, file_size, printed, ghosts>>

\* line 34 when the directory is missing and may not be created
MakedirsFail ==
  /\ pc = "start"
  /\ ~dirExists
  /\ err' = "makedirs_OSError"
  /\ pc' = "error"
  /\ UNCHANGED <<config, disk, wav, samples, i, file_size, printed, ghosts>>

\* An open that keeps what the file held (mode 'a').
OpenAppend(old) == old

\* line 38: mode 'w' opens the file with 'wb', which empties it
OpenTruncate(old) == <<>>

\* line 38: wave.open(output_file, 'w') succeeds
WaveOpen ==
  /\ pc = "open"
  /\ dirExists
  /\ fileExists' = TRUE
  /\ file' = OpenTruncate(file)
  /\ wav' = [WavNone EXCEPT !.state = "open"]
  /\ pc' = "params"
  /\ UNCHANGED <<config, dirExists, samples, i, err, file_size, printed, ghosts>>

\* line 38: the file cannot be opened for writing; the with body never runs
OpenFail ==
  /\ pc = "open"
  /\ err' = "open_OSError"
  /\ pc' = "error"
  /\ UNCHANGED <<config, disk, wav, samples, i, file_size, printed, ghosts>>

\* lines 39-44: setnchannels(1), setsampwidth(2), setframerate(sample_rate),
\* which raises wave.Error('bad frame rate') for a rate <= 0; samples = []
SetParams ==
  /\ pc = "params"
  /\ IF sample_rate <= 0
       THEN /\ wav' = [wav EXCEPT !.nchannels = NChannels, !.sampwidth = SampWidth]
            /\ err' = "wave.Error"
            /\ pc' = "exit"
       ELSE /\ wav' = [wav EXCEPT !.nchannels = NChannels, !.sampwidth = SampWidth,
                                  !.framerate = sample_rate]
            /\ pc' = "loop"
            /\ UNCHANGED err
  /\ samples' = <<>>
  /\ i' = 0
  /\ UNCHANGED <<config, disk, file_size, printed, ghosts>>

\* lines 45-47: one iteration of the loop
LoopStep ==
  /\ pc = "loop"
  /\ i < NumSamples(sample_rate, duration)
  /\ samples' = BufAppend(samples, Quantize(SineSample(sample_rate, frequency, i)))
  /\ i' = i + 1
  /\ UNCHANGED <<config, pc, disk, wav, err, file_size, printed, ghosts>>

\* lines 45-47: every iteration of the loop, in one step
GenerateSamples ==
  /\ pc = "loop"
  /\ i = 0
  /\ i < NumSamples(sample_rate, duration)
  /\ samples' = AllSamples(sample_rate, duration, frequency)
  /\ i' = NumSamples(sample_rate, duration)
  /\ UNCHANGED <<config, pc, disk, wav, err, file_size, printed, ghosts>>

\* line 49 after the loop: struct.pack raises struct.error on a sample out of
\* range; else writeframes writes the header for the data, then the data
WriteFrames ==
  /\ pc = "loop"
  /\ i >= NumSamples(sample_rate, duration)
  /\ IF ~PackOk(samples)
       THEN /\ err' = "struct.error"
            /\ UNCHANGED <<file, wav>>
       ELSE LET data == PackFrames(samples) IN
            /\ file' = BufCat(BufCat(file, BufFrom(WavHeader(BufLen(data), wav.nchannels,
                                                       wav.framerate, wav.sampwidth))),
                              data)
            /\ wav' = [wav EXCEPT !.headerwritten = TRUE, !.headerpos = BufLen(file),
                                  !.datalength = BufLen(data),
                                  !.datawritten = BufLen(data)]
            /\ UNCHANGED err
  /\ pc' = "exit"
  /\ UNCHANGED <<config, dirExists, fileExists, samples, i, file_size, printed, ghosts>>

\* line 49 when the write of the data fails (disk full) after the header
WriteFramesFail ==
  /\ pc = "loop"
  /\ i >= NumSamples(sample_rate, duration)
  /\ PackOk(samples)
  /\ LET data == PackFrames(samples) IN
     /\ file' = BufCat(file, BufFrom(WavHeader(BufLen(data), wav.nchannels,
                                                wav.framerate, wav.sampwidth)))
     /\ wav' = [wav EXCEPT !.headerwritten = TRUE, !.headerpos = BufLen(file),
                           !.datalength = BufLen(data), !.datawritten = 0]
  /\ err' = "write_OSError"
  /\ pc' = "exit"
  /\ UNCHANGED <<config, dirExists, fileExists, samples, i, file_size, printed, ghosts>>

\* A close() placed after the body instead of a with statement: skipped
\* when the body raises.
CloseUnlessRaised(e) == IF e = "none" THEN "closed" ELSE "open"

\* line 38: the with statement closes the file whether or not the body raised
CloseState(e) == "closed"

\* Wave_write.close: the header is written if it was not, or patched if the
\* data length it announces is not what was written
ClosedFile ==
  IF ~wav.headerwritten
    THEN IF wav.framerate = 0 THEN file
         ELSE BufCat(file, BufFrom(WavHeader(0, wav.nchannels, wav.framerate,
                                             wav.sampwidth)))
    ELSE IF wav.datalength = wav.datawritten THEN file
         ELSE BufPatch(file, wav.headerpos,
                       WavHeader(wav.datawritten, wav.nchannels, wav.framerate,
                                 wav.sampwidth))

\* line 38, leaving the with block (normally or by an exception): close()
\* raises wave.Error when no frame rate was set, and releases the file
ExitWith ==
  /\ pc = "exit"
  /\ file' = ClosedFile
  /\ err' = IF ~wav.headerwritten /\ wav.framerate = 0 THEN "wave.Error" ELSE err
  /\ wav' = [wav EXCEPT !.state = CloseState(err)]
  /\ pc' = IF err' = "none" THEN "getsize" ELSE "error"
  /\ UNCHANGED <<config, dirExists, fileExists, samples, i, file_size, printed, ghosts>>

\* line 52: os.path.getsize(output_file)
GetSize ==
  /\ pc = "getsize"
  /\ file_size' = BufLen(file)
  /\ pc' = "print"
  /\ UNCHANGED <<config, disk, wav, samples, i, err, printed, ghosts>>

\* lines 54-60: the summary, then return output_file
PrintSummary ==
  /\ pc = "print"
  /\ printed' = TRUE
  /\ pc' = "done"
  /\ UNCHANGED <<config, disk, wav, samples, i, err, file_size, ghosts>>

\* lines 62-63: the script is run again, on the disk the last run left
Rerun ==
  /\ pc \in {"done", "error"}
  /\ runs < MaxRuns
  /\ runs' = runs + 1
  /\ prevOutcome' = pc
  /\ startDir' = dirExists
  /\ startExists' = fileExists
  /\ startFile' = file
  /\ pc' = "start"
  /\ wav' = WavNone
  /\ samples' = <<>>
  /\ i' = 0
  /\ err' = "none"
  /\ file_size' = -1
  /\ printed' = FALSE
  /\ UNCHANGED <<config, disk>>

Next ==
  \/ Makedirs
  \/ MakedirsFail
  \/ WaveOpen
  \/ OpenFail
  \/ SetParams
  \/ LoopStep
  \/ WriteFrames
  \/ WriteFramesFail
  \/ ExitWith
  \/ GetSize
  \/ PrintSummary
  \/ Rerun

NextDefault ==
  \/ Makedirs
  \/ MakedirsFail
  \/ WaveOpen
  \/ OpenFail
  \/ SetParams
  \/ GenerateSamples
  \/ WriteFrames
  \/ WriteFramesFail
  \/ ExitWith
  \/ GetSize
  \/ PrintSummary
  \/ Rerun

Spec == Init /\ [][Next]_vars

SpecDefault == InitDefault /\ [][NextDefault]_vars

\* ------------------------------------------------------------ the claims
\* A reader of the file: the little-endian fields of a RIFF/WAVE header.
U16(b, off) == BufAt(b, off + 1) + 256 * BufAt(b, off + 2)

U32(b, off) ==
  BufAt(b, off + 1) + 256 * BufAt(b, off + 2) + 65536 * BufAt(b, off + 3)
    + 16777216 * BufAt(b, off + 4)

S16(b, off) == IF U16(b, off) >= 32768 THEN U16(b, off) - 65536 ELSE U16(b, off)

DecChannels(b) == U16(b, 22)

DecRate(b) == U32(b, 24)

DecByteRate(b) == U32(b, 28)

DecBlockAlign(b) == U16(b, 32)

DecBits(b) == U16(b, 34)

DecDataLen(b) == U32(b, 40)

DecSamples(b) ==
  LET n == DecDataLen(b) \div 2 IN
  BufOf(n, [k \in 1..n |-> S16(b, 44 + 2 * (k - 1))])

ValidSpec == sample_rate > 0 /\ duration > 0 /\ frequency > 0

\* floor(sampleRate * durationSeconds) of a valid spec
FloorCount == (sample_rate * duration) \div DurDen

AfterLoop == pc \in {"exit", "getsize", "print", "done"}

\* C1: for a valid spec the loop appends one sample per index and stops at
\* floor(sampleRate * durationSeconds) samples, and exactly those samples
\* (two bytes each) are what writeframes is given and writes.
C1_SampleCount ==
  ValidSpec =>
    /\ pc = "loop" => BufLen(samples) = i /\ i <= FloorCount
    /\ AfterLoop => BufLen(samples) = FloorCount
    /\ AfterLoop /\ err = "none" => wav.datawritten = 2 * FloorCount

C1_Witness ==
  /\ ValidSpec
  /\ pc = "done"
  /\ (sample_rate * duration) % DurDen # 0
  /\ BufLen(samples) = FloorCount
  /\ FloorCount > 0

\* C2: for a valid spec every sample in the buffer, in every state of the
\* loop and after it, lies in [-32767, 32767], and struct.pack never fails.
C2_SampleRange ==
  ValidSpec =>
    /\ \A k \in 1..BufLen(samples) : BufAt(samples, k) >= -32767 /\ BufAt(samples, k) <= 32767
    /\ err # "struct.error"

C2_Witness ==
  /\ ValidSpec
  /\ pc = "loop"
  /\ \E k \in 1..BufLen(samples) : BufAt(samples, k) = 32767
  /\ \E k \in 1..BufLen(samples) : BufAt(samples, k) = -32767

\* C3: the file a successful run leaves decodes to one channel, 16 bits per
\* sample, block align 2, the input sample rate, byte rate 2 * sampleRate,
\* and a data section holding exactly the generated samples.
C3_RoundTrip ==
  pc = "done" =>
    /\ <<BufAt(file, 1), BufAt(file, 2), BufAt(file, 3), BufAt(file, 4)>> = TagRIFF
    /\ DecChannels(file) = 1
    /\ DecBits(file) = 16
    /\ DecBlockAlign(file) = 2
    /\ DecRate(file) = sample_rate
    /\ DecByteRate(file) = 2 * sample_rate
    /\ DecDataLen(file) = 2 * BufLen(samples)
    /\ BufLen(file) = 44 + DecDataLen(file)
    /\ DecSamples(file) = samples
    /\ BufLen(samples) = (IF duration > 0 THEN FloorCount ELSE 0)

C3_Witness ==
  /\ ValidSpec
  /\ pc = "done"
  /\ BufLen(samples) > 1
  /\ \E k \in 1..BufLen(samples) : BufAt(samples, k) < 0
  /\ DecSamples(file) = samples

\* C4: with sample_rate = 44100, duration = 3 and frequency = 440 the loop
\* generates 132300 samples, and a run that closes the file without error
\* leaves a data section of exactly 264600 bytes: those samples, two bytes
\* each, and nothing else.
C4_DefaultSize ==
  /\ AfterLoop => BufLen(samples) = 132300
  /\ pc \in {"getsize", "print", "done"} =>
       /\ DecDataLen(file) = 264600
       /\ BufLen(file) - 44 = 264600
       /\ DecSamples(file) = samples

C4_Witness ==
  /\ pc = "done"
  /\ sample_rate = 44100 /\ duration = 3 * DurDen /\ frequency = 440
  /\ BufLen(samples) = 132300
  /\ BufLen(file) = 264644

\* C5: an invalid spec (a non-positive sampleRate, durationSeconds or
\* frequencyHz) leaves the disk as it was, and the run ends with an
\* InvalidArgument error.
C5_InvalidRejected ==
  ~ValidSpec =>
    /\ dirExists = startDir /\ fileExists = startExists /\ file = startFile
    /\ pc # "done"
    /\ pc = "error" => err = "InvalidArgument"

\* C6 as stated: every stored sample is the nearest integer to
\* sin(2*pi*frequencyHz*i/sampleRate) * 32767.
C6_RoundNearest ==
  ValidSpec =>
    \A k \in 1..BufLen(samples) :
      BufAt(samples, k) = IntRound(Scaled(SineSample(sample_rate, frequency, k - 1), 32767))

\* C6 as amended: every stored sample is sin(2*pi*frequencyHz*i/sampleRate)
\* * 32767 truncated toward zero: it has the sign of that value (or is 0) and
\* its magnitude is the integer part of the value's magnitude.
C6_TruncTowardZero ==
  \A k \in 1..BufLen(samples) :
    LET v == Scaled(SineSample(sample_rate, frequency, k - 1), 32767) IN
    /\ Abs(BufAt(samples, k)) = v.whole
    /\ BufAt(samples, k) < 0 => v.neg
    /\ BufAt(samples, k) > 0 => ~v.neg

C6_Witness ==
  /\ ValidSpec
  /\ \E k \in 1..BufLen(samples) :
       LET v == Scaled(SineSample(sample_rate, frequency, k - 1), 32767) IN
       BufAt(samples, k) < 0 /\ 2 * v.frac > SinScale /\ BufAt(samples, k) = -v.whole
  /\ \E k \in 1..BufLen(samples) :
       LET v == Scaled(SineSample(sample_rate, frequency, k - 1), 32767) IN
       BufAt(samples, k) > 0 /\ 2 * v.frac > SinScale /\ BufAt(samples, k) = v.whole

\* C7: a second successful run of the same spec on the same path leaves the
\* file byte for byte as the first successful run left it.
C7_Idempotent ==
  runs >= 2 /\ prevOutcome = "done" /\ pc = "done" =>
    fileExists /\ startExists /\ file = startFile

C7_Witness ==
  /\ runs = 2 /\ prevOutcome = "done" /\ pc = "done"
  /\ BufLen(file) > HeaderLen
  /\ file = startFile

\* C8: in no terminal state of a run, normal or by an error, and in no state
\* after the with block, is the handle opened by wave.open still open.
C8_HandleClosed ==
  pc \in {"getsize", "print", "done", "error"} => wav.state # "open"

C8_Witness ==
  /\ pc = "error"
  /\ err = "write_OSError"
  /\ wav.state = "closed"
  /\ wav.headerwritten

\* C9: when a valid spec's sampleRate * durationSeconds floors to 0 the
\* writer raises no error of its own, and a run that the disk lets finish
\* leaves a header-only WAV file: 44 bytes, data length 0, one channel,
\* sample width 2, the input sample rate.
C9_ZeroSamples ==
  ValidSpec /\ FloorCount = 0 =>
    /\ err \in {"none", "makedirs_OSError", "open_OSError", "write_OSError"}
    /\ pc = "done" =>
         /\ samples = <<>>
         /\ BufLen(file) = 44
         /\ DecDataLen(file) = 0
         /\ DecChannels(file) = 1
         /\ DecBits(file) = 8 * 2
         /\ DecRate(file) = sample_rate

C9_Witness ==
  /\ ValidSpec /\ FloorCount = 0
  /\ pc = "done"
  /\ file = BufFrom(WavHeader(0, 1, sample_rate, 2))

\* C10: the directory exists before the file is opened; the size is read
\* and the summary printed only once the file is closed; a failure to create
\* the directory (which an existing directory never causes) ends the run
\* with the file never opened and nothing printed.
C10_Ordering ==
  /\ pc = "open" \/ wav.state # "none" => dirExists
  /\ file_size # -1 \/ printed \/ pc \in {"print", "done"} => wav.state = "closed"
  /\ err = "makedirs_OSError" =>
       pc = "error" /\ wav.state = "none" /\ ~printed /\ file_size = -1 /\ ~startDir

C10_Witness ==
  /\ runs = 1
  /\ ~startDir /\ dirExists
  /\ pc = "done" /\ printed /\ file_size = BufLen(file)
  /\ wav.state = "closed"

====
